---- MODULE Spec2Model ----
(***************************************************************************)
(* SatBot (sat-bot/main.go): an HTTP relay with two routes, GET /health    *)
(* and POST /chat, registered on a gorilla/mux router.  The chat handler   *)
(* validates the request, calls the GROQ completion endpoint once,         *)
(* interprets the answer and writes one response; on success it starts a   *)
(* detached goroutine that logs the interaction.                           *)
(*                                                                         *)
(* Every request is a record req[i].  The handler's statements are the     *)
(* actions below, one per early-return block of chatCompletionHandler.     *)
(***************************************************************************)
EXTENDS Naturals, Sequences, FiniteSets, TLC

(***************************************************************************)
(* Bounds of the model.                                                    *)
(***************************************************************************)
\* longest message text drawn for a request body
MaxLen == 2
\* largest number of candidates in an upstream completion body
MaxChoices == 2
\* number of requests in flight together in SpecConc
NumConc == 2

Ids == 1..NumConc

(***************************************************************************)
(* Text: a string is a sequence of one-character strings.                  *)
(***************************************************************************)
Chars == {" ", "a"}

IsSpace(c) == c = " "

RECURSIVE SeqsUpTo(_, _)
SeqsUpTo(S, n) ==
    IF n = 0 THEN {<<>>}
    ELSE LET shorter == SeqsUpTo(S, n - 1)
         IN  shorter \cup {Append(s, c) : s \in shorter, c \in S}

Texts == SeqsUpTo(Chars, MaxLen)

RECURSIVE TrimLeft(_)
TrimLeft(s) ==
    IF s = <<>> THEN s
    ELSE IF IsSpace(Head(s)) THEN TrimLeft(Tail(s)) ELSE s

RECURSIVE TrimRight(_)
TrimRight(s) ==
    IF s = <<>> THEN s
    ELSE IF IsSpace(s[Len(s)]) THEN TrimRight(SubSeq(s, 1, Len(s) - 1)) ELSE s

\* a validation that forgets to trim
TrimSpaceIdentity(s) == s

\* strings.TrimSpace
TrimSpace(s) == TrimRight(TrimLeft(s))

(***************************************************************************)
(* The inbound JSON body and encoding/json's strict decode into Message.   *)
(* A body is malformed or a JSON object, a sequence of members; a member's *)
(* value is a string or a number.                                          *)
(***************************************************************************)
\* encoding/json folds the case of an object key before matching a field
FoldKey(k) == IF k = "Message" THEN "message" ELSE k

StringVal(t) == [type |-> "string", text |-> t]
NumberVal == [type |-> "number", text |-> <<>>]

MessageMembers ==
    {[key |-> k, val |-> v] :
        k \in {"message", "Message"},
        v \in {StringVal(t) : t \in Texts} \cup {NumberVal}}

ExtraMembers == {[key |-> "extra", val |-> StringVal(<<"a">>)]}

Members == MessageMembers \cup ExtraMembers

Object(ms) == [kind |-> "object", members |-> ms]
Malformed == [kind |-> "malformed", members |-> <<>>]
NoBody == [kind |-> "none", members |-> <<>>]

\* the objects of at most two members, and one body that is not JSON
Bodies ==
    {Malformed, Object(<<>>)}
        \cup {Object(<<m>>) : m \in Members}
        \cup {Object(<<m, n>>) : m \in Members, n \in Members}

\* a decoder built without DisallowUnknownFields
FieldKnownLenient(k) == TRUE

\* Message has one field, tagged json:"message"; a key names it when it
\* matches the tag exactly or after case folding
FieldKnown(k) == FoldKey(k) = "message"

MemberErr(m) == ~FieldKnown(m.key) \/ m.val.type # "string"

RECURSIVE LastMessage(_)
LastMessage(ms) ==
    IF ms = <<>> THEN <<>>
    ELSE LET m == ms[Len(ms)]
         IN  IF FieldKnown(m.key) /\ m.val.type = "string"
             THEN m.val.text
             ELSE LastMessage(SubSeq(ms, 1, Len(ms) - 1))

\* decoder.Decode(&msg): the error, and msg.Message as the handler reads it
Decode(body) ==
    IF body.kind # "object"
    THEN [err |-> TRUE, message |-> <<>>]
    ELSE [err     |-> \E k \in 1..Len(body.members) : MemberErr(body.members[k]),
          message |-> LastMessage(body.members)]

(***************************************************************************)
(* The upstream completion endpoint: what client.Do and io.ReadAll can     *)
(* hand back.  A body is not JSON, a JSON object without "choices" (an     *)
(* error document), or a completion with a list of candidate contents.     *)
(***************************************************************************)
Contents == {"x", "y"}

UpStatuses == {200, 201, 500}

UpBody(kind, cs) == [kind |-> kind, choices |-> cs]
NoUpBody == UpBody("none", <<>>)

UpBodies ==
    {UpBody("garbage", <<>>), UpBody("error_object", <<>>)}
        \cup {UpBody("completion", cs) : cs \in SeqsUpTo(Contents, MaxChoices)}

\* json.Unmarshal(body, &chatCompletion): an absent "choices" leaves the
\* slice empty
Unmarshal(b) ==
    [err     |-> b.kind = "garbage",
     choices |-> IF b.kind = "completion" THEN b.choices ELSE <<>>]

\* a handler that answers with the last candidate
LastChoice(cs) == cs[Len(cs)]

\* chatCompletion.Choices[0].Message.Content
FirstChoice(cs) == cs[1]

(***************************************************************************)
(* State.                                                                  *)
(***************************************************************************)
VARIABLES
    env,    \* os.Getenv("GROQ_API_KEY") after loadEnv: "" when not configured
    req,    \* req[i]: request i, its handler's position and its response
    log     \* the lines written with log.Printf, in order

vars == <<env, req, log>>

Methods == {"GET", "POST", "OPTIONS"}
Paths == {"/health", "/chat"}
Origins == {"", "https://saturnalia.in", "https://evil.example"}

NoOut == [kind |-> "none", text |-> ""]

Idle ==
    [pc       |-> "idle",
     method   |-> "",
     path     |-> "",
     origin   |-> "",
     body     |-> NoBody,       \* r.Body as the decoder read it
     msg      |-> <<>>,         \* msg.Message
     prompt   |-> <<>>,         \* groqPrompt
     upStatus |-> 0,            \* resp.StatusCode
     upBody   |-> NoUpBody,     \* body read from resp.Body
     choices  |-> <<>>,         \* chatCompletion.Choices
     steps    |-> <<>>,         \* the handler's steps run so far, in order
     calls    |-> 0,            \* client.Do invocations
     headers  |-> {},           \* w.Header()
     status   |-> 0,            \* w.WriteHeader; 0 while nothing is written
     out      |-> NoOut,        \* the JSON document encoded to w
     logTask  |-> "none"]       \* the goroutine of lines 278-281

Init ==
    /\ env \in {"", "key"}
    /\ req = [i \in Ids |-> Idle]
    /\ log = <<>>

\* w.Header().Set("Content-Type", "application/json")
SetContentType(r) ==
    [r EXCEPT !.headers = @ \cup {<<"Content-Type", "application/json">>}]

\* w.WriteHeader(code); json.NewEncoder(w).Encode(ErrorResponse{Error: e}); return
WriteError(r, step, code, e) ==
    [r EXCEPT !.pc = "done",
              !.steps = Append(@, step),
              !.status = code,
              !.out = [kind |-> "error", text |-> e]]

\* the step passed: the handler goes on to the next statement
Pass(r, step, next) == [r EXCEPT !.pc = next, !.steps = Append(@, step)]

(***************************************************************************)
(* The server: a request arrives and the mux router matches it against the *)
(* two registered routes.                                                  *)
(***************************************************************************)
Requests == [method : Methods, path : Paths, origin : Origins]

Arrive(i, rs) ==
    /\ req[i].pc = "idle"
    /\ \E q \in rs :
          req' = [req EXCEPT ![i] = [@ EXCEPT !.pc = "route",
                                              !.method = q.method,
                                              !.path = q.path,
                                              !.origin = q.origin]]
    /\ UNCHANGED <<env, log>>

\* a router that answers a method mismatch as an unknown route
MethodMismatchNotFound(r) ==
    [r EXCEPT !.pc = "done", !.status = 404, !.out = [kind |-> "empty", text |-> ""]]

\* mux answers a request whose path matches a route and whose method does
\* not with its methodNotAllowedHandler: 405 and no body; the route's
\* handler is not called
MethodMismatch(r) ==
    [r EXCEPT !.pc = "done", !.status = 405, !.out = [kind |-> "empty", text |-> ""]]

\* r.HandleFunc("/health", healthCheckHandler).Methods("GET")
\* r.HandleFunc("/chat", chatCompletionHandler).Methods("POST")
RouteMethod(path) == IF path = "/health" THEN "GET" ELSE "POST"

RouteHandler(path) == IF path = "/health" THEN "health" ELSE "gate"

Route(i) ==
    /\ req[i].pc = "route"
    /\ req' = [req EXCEPT ![i] =
                 IF req[i].method = RouteMethod(req[i].path)
                 THEN [@ EXCEPT !.pc = RouteHandler(req[i].path)]
                 ELSE MethodMismatch(@)]
    /\ UNCHANGED <<env, log>>

healthCheckHandler(i) ==
    /\ req[i].pc = "health"
    /\ req' = [req EXCEPT ![i] =
                 [SetContentType(@) EXCEPT !.pc = "done",
                                           !.status = 200,
                                           !.out = [kind |-> "health", text |-> "healthy"]]]
    /\ UNCHANGED <<env, log>>

(***************************************************************************)
(* chatCompletionHandler, one action per block that can return.            *)
(***************************************************************************)
\* lines 131-139
chatGate(i) ==
    /\ req[i].pc = "gate"
    /\ req' = [req EXCEPT ![i] =
                 IF req[i].method # "POST"
                 THEN WriteError(SetContentType(@), "gate", 405, "Method not allowed")
                 ELSE Pass(SetContentType(@), "gate", "decode")]
    /\ UNCHANGED <<env, log>>

\* lines 141-150: the decoder reads r.Body
chatDecode(i, bodies) ==
    /\ req[i].pc = "decode"
    /\ \E b \in bodies :
          LET d == Decode(b)
              r == [req[i] EXCEPT !.body = b, !.msg = d.message]
          IN  req' = [req EXCEPT ![i] =
                        IF d.err
                        THEN WriteError(r, "decode", 400, "Invalid request format")
                        ELSE Pass(r, "decode", "validate")]
    /\ UNCHANGED <<env, log>>

\* lines 152-157
chatValidate(i) ==
    /\ req[i].pc = "validate"
    /\ req' = [req EXCEPT ![i] =
                 IF TrimSpace(req[i].msg) = <<>>
                 THEN WriteError(@, "validate", 400, "Message cannot be empty")
                 ELSE Pass(@, "validate", "credential")]
    /\ UNCHANGED <<env, log>>

\* a handler that goes on without a key
ApiKeyNeverMissing(apiKey) == FALSE

\* apiKey == ""
ApiKeyMissing(apiKey) == apiKey = ""

\* lines 159-165
chatCredential(i) ==
    /\ req[i].pc = "credential"
    /\ req' = [req EXCEPT ![i] =
                 IF ApiKeyMissing(env)
                 THEN WriteError(@, "credential", 500, "GROQ API key not configured")
                 ELSE Pass(@, "credential", "compose")]
    /\ UNCHANGED <<env, log>>

\* fmt.Sprintf("User Query: %s\n\nAnswer:", msg.Message)
groqPrompt(m) == <<"User Query: ">> \o m \o <<"\n\nAnswer:">>

\* lines 167-225: json.Marshal of a map of strings and numbers and
\* http.NewRequest of a constant URL do not fail
chatCompose(i) ==
    /\ req[i].pc = "compose"
    /\ req' = [req EXCEPT ![i] =
                 Pass([@ EXCEPT !.prompt = groqPrompt(req[i].msg)], "compose", "call")]
    /\ UNCHANGED <<env, log>>

\* client.Do(req) returns an error (a transport failure, or the 30 s
\* Timeout) or a response with a status
CallOutcomes(statuses) ==
    {[err |-> TRUE, status |-> 0]} \cup {[err |-> FALSE, status |-> s] : s \in statuses}

\* lines 227-240
chatCall(i, statuses) ==
    /\ req[i].pc = "call"
    /\ \E o \in CallOutcomes(statuses) :
          LET r == [req[i] EXCEPT !.calls = @ + 1, !.upStatus = o.status]
          IN  req' = [req EXCEPT ![i] =
                        IF o.err
                        THEN WriteError(r, "call", 500, "Failed to call GROQ API")
                        ELSE Pass(r, "call", "read")]
    /\ UNCHANGED <<env, log>>

\* io.ReadAll(reader) returns an error or the body
ReadOutcomes(upBodies) ==
    {[err |-> TRUE, body |-> NoUpBody]} \cup {[err |-> FALSE, body |-> b] : b \in upBodies}

\* lines 242-249
chatRead(i, upBodies) ==
    /\ req[i].pc = "read"
    /\ \E o \in ReadOutcomes(upBodies) :
          LET r == [req[i] EXCEPT !.upBody = o.body]
          IN  req' = [req EXCEPT ![i] =
                        IF o.err
                        THEN WriteError(r, "read", 500, "Failed to read response")
                        ELSE Pass(r, "read", "status")]
    /\ UNCHANGED <<env, log>>

\* log.Printf("GROQ API error: Status %d, Body: %s", ...)
GroqErrorLine(status, body) ==
    [kind |-> "groq_error", status |-> status, body |-> body, question |-> <<>>]

\* log.Printf("Chat interaction - Question: %s, ...", msg.Message, ...)
ChatLine(question) ==
    [kind |-> "chat", status |-> 0, body |-> NoUpBody, question |-> question]

\* lines 251-257
chatStatus(i) ==
    /\ req[i].pc = "status"
    /\ IF req[i].upStatus # 200
       THEN /\ log' = Append(log, GroqErrorLine(req[i].upStatus, req[i].upBody))
            /\ req' = [req EXCEPT ![i] =
                         WriteError(@, "status", 500, "GROQ API returned an error")]
       ELSE /\ log' = log
            /\ req' = [req EXCEPT ![i] = Pass(@, "status", "parse")]
    /\ UNCHANGED env

\* lines 259-265
chatParse(i) ==
    /\ req[i].pc = "parse"
    /\ LET u == Unmarshal(req[i].upBody)
       IN  req' = [req EXCEPT ![i] =
                     IF u.err
                     THEN WriteError(@, "parse", 500, "Failed to parse response")
                     ELSE Pass([@ EXCEPT !.choices = u.choices], "parse", "choices")]
    /\ UNCHANGED <<env, log>>

\* lines 267-272
chatChoices(i) ==
    /\ req[i].pc = "choices"
    /\ req' = [req EXCEPT ![i] =
                 IF Len(req[i].choices) = 0
                 THEN WriteError(@, "choices", 500, "No response from GROQ API")
                 ELSE Pass(@, "choices", "audit")]
    /\ UNCHANGED <<env, log>>

\* lines 274-281: go func() { log.Printf(...) }()
chatAudit(i) ==
    /\ req[i].pc = "audit"
    /\ req' = [req EXCEPT ![i] = Pass([@ EXCEPT !.logTask = "spawned"], "audit", "respond")]
    /\ UNCHANGED <<env, log>>

\* a handler that joins the goroutine before it answers
RespondAfterLog(r) == r.pc = "respond" /\ r.logTask = "done"

\* the handler reaches line 283 with nothing to wait for
RespondReady(r) == r.pc = "respond"

\* lines 283-290
chatRespond(i) ==
    /\ RespondReady(req[i])
    /\ req' = [req EXCEPT ![i] =
                 [@ EXCEPT !.pc = "done",
                           !.steps = Append(@, "respond"),
                           !.status = 200,
                           !.out = [kind |-> "chat", text |-> FirstChoice(req[i].choices)]]]
    /\ UNCHANGED <<env, log>>

\* the body of the goroutine, lines 279-280, scheduled at any time after go
auditLog(i) ==
    /\ req[i].logTask = "spawned"
    /\ log' = Append(log, ChatLine(req[i].msg))
    /\ req' = [req EXCEPT ![i] = [@ EXCEPT !.logTask = "done"]]
    /\ UNCHANGED env

(***************************************************************************)
(* Specifications.  Spec serves one request drawn from all the inputs;     *)
(* SpecConc serves NumConc requests together, drawn from fewer inputs.     *)
(***************************************************************************)
Serve(i, rs, bodies, statuses, upBodies) ==
    \/ Arrive(i, rs)
    \/ Route(i)
    \/ healthCheckHandler(i)
    \/ chatGate(i)
    \/ chatDecode(i, bodies)
    \/ chatValidate(i)
    \/ chatCredential(i)
    \/ chatCompose(i)
    \/ chatCall(i, statuses)
    \/ chatRead(i, upBodies)
    \/ chatStatus(i)
    \/ chatParse(i)
    \/ chatChoices(i)
    \/ chatAudit(i)
    \/ chatRespond(i)
    \/ auditLog(i)

Next == Serve(1, Requests, Bodies, UpStatuses, UpBodies)

Spec == Init /\ [][Next]_vars

ConcRequests ==
    {q \in Requests : q.origin = "" /\ (q.path = "/chat" => q.method = "POST")}

ConcBodies ==
    {Object(<<[key |-> "message", val |-> StringVal(t)]>>) : t \in {<<"a">>, <<" ">>}}

ConcStatuses == {200, 500}

ConcUpBodies ==
    {UpBody("garbage", <<>>), UpBody("error_object", <<>>), UpBody("completion", <<"x">>)}

NextConc ==
    \E i \in Ids : Serve(i, ConcRequests, ConcBodies, ConcStatuses, ConcUpBodies)

SpecConc == Init /\ [][NextConc]_vars

(***************************************************************************)
(* Vocabulary of the properties, stated on a request's inputs and on what  *)
(* the caller and the log see.                                             *)
(***************************************************************************)
IsChat(r) == r.path = "/chat"

Answered(r) == r.pc = "done"

\* the text is empty or holds nothing but whitespace
IsBlank(t) == \A k \in 1..Len(t) : t[k] = " "

\* the handler read a body that is a JSON object whose members all name
\* `message`, in any case of letters, and hold strings
Decoded(r) ==
    /\ r.body.kind = "object"
    /\ \A k \in 1..Len(r.body.members) :
          /\ r.body.members[k].key \in {"message", "Message"}
          /\ r.body.members[k].val.type = "string"

HasKey(r, keys) == \E k \in 1..Len(r.body.members) : r.body.members[k].key \in keys

AnswersError(r, code, e) == r.status = code /\ r.out = [kind |-> "error", text |-> e]

StepSet(r) == {r.steps[k] : k \in 1..Len(r.steps)}

(***************************************************************************)
(* C1: a POST to /chat whose body decodes to a message that is empty or    *)
(* only whitespace is answered 400 "Message cannot be empty", and the      *)
(* upstream endpoint is not called for it, with or without GROQ_API_KEY.   *)
(***************************************************************************)
C1_EmptyMessage ==
    \A i \in Ids :
        LET r == req[i]
        IN  (IsChat(r) /\ Decoded(r) /\ IsBlank(r.msg)) =>
                /\ r.calls = 0
                /\ "call" \notin StepSet(r)
                /\ r.pc \in {"validate", "done"}
                /\ Answered(r) => AnswersError(r, 400, "Message cannot be empty")

C1_Witness ==
    /\ env = "key"
    /\ Answered(req[1])
    /\ req[1].msg = <<" ", " ">>
    /\ AnswersError(req[1], 400, "Message cannot be empty")

(***************************************************************************)
(* C2, as claimed: a POST to /chat whose payload holds a field other than  *)
(* `message` is answered 400 "Invalid request format" and no upstream call *)
(* is made, whatever `message` is.                                         *)
(***************************************************************************)
C2_AnyOtherField ==
    \A i \in Ids :
        LET r == req[i]
        IN  (IsChat(r) /\ HasKey(r, {"Message", "extra"})) =>
                /\ r.calls = 0
                /\ Answered(r) => AnswersError(r, 400, "Invalid request format")

(***************************************************************************)
(* C2, amended: a POST to /chat whose payload holds a field whose name     *)
(* differs from `message` by more than the case of its letters is answered *)
(* 400 "Invalid request format" and no upstream call is made, whatever     *)
(* `message` is.                                                           *)
(***************************************************************************)
C2_UnknownField ==
    \A i \in Ids :
        LET r == req[i]
        IN  (IsChat(r) /\ HasKey(r, {"extra"})) =>
                /\ r.calls = 0
                /\ Answered(r)
                /\ AnswersError(r, 400, "Invalid request format")

C2_Witness ==
    /\ Answered(req[1])
    /\ req[1].body = Object(<<[key |-> "message", val |-> StringVal(<<"a">>)],
                              [key |-> "extra", val |-> StringVal(<<"a">>)]>>)
    /\ AnswersError(req[1], 400, "Invalid request format")

(***************************************************************************)
(* C3: a request to /chat whose method is not POST is answered 405, and    *)
(* neither the decode of its body nor the upstream call runs.              *)
(***************************************************************************)
C3_MethodNotAllowed ==
    \A i \in Ids :
        LET r == req[i]
        IN  (IsChat(r) /\ r.method # "POST") =>
                /\ r.body = NoBody
                /\ "decode" \notin StepSet(r)
                /\ r.calls = 0
                /\ Answered(r) => r.status = 405

C3_Witness ==
    /\ Answered(req[1])
    /\ IsChat(req[1])
    /\ req[1].method = "GET"
    /\ req[1].status = 405

(***************************************************************************)
(* C4: a chat request whose upstream call came back with a status >= 300,  *)
(* or with a body that parses and holds no candidate, is answered 500 with *)
(* a fixed message, and in both cases the upstream status and body are in  *)
(* the log when the request ends.                                          *)
(***************************************************************************)
UpstreamRead(r) == r.calls = 1 /\ r.upBody # NoUpBody

NoCandidates(r) ==
    /\ r.upStatus = 200
    /\ r.upBody.kind \in {"error_object", "completion"}
    /\ r.upBody.choices = <<>>

Logged(status, body) ==
    \E k \in 1..Len(log) :
        log[k].kind = "groq_error" /\ log[k].status = status /\ log[k].body = body

C4_UpstreamFailureLogged ==
    \A i \in Ids :
        LET r == req[i]
        IN  (Answered(r) /\ UpstreamRead(r) /\ (r.upStatus >= 300 \/ NoCandidates(r))) =>
                /\ r.status = 500
                /\ r.out.kind = "error"
                /\ r.out.text \in {"GROQ API returned an error", "No response from GROQ API"}
                /\ Logged(r.upStatus, r.upBody)

(***************************************************************************)
(* C5: the response carries Access-Control-Allow-Origin, equal to the      *)
(* request's Origin, exactly when that Origin is on the allow-list.        *)
(***************************************************************************)
AllowedOrigins == {"https://saturnalia.in"}

AllowOrigin(r) == {h[2] : h \in {g \in r.headers : g[1] = "Access-Control-Allow-Origin"}}

C5_AllowOrigin ==
    \A i \in Ids :
        LET r == req[i]
        IN  Answered(r) =>
                AllowOrigin(r) = IF r.origin \in AllowedOrigins THEN {r.origin} ELSE {}

(***************************************************************************)
(* C6: an OPTIONS request to /health or /chat is answered 204 with no      *)
(* body, and no step of either handler runs.                               *)
(***************************************************************************)
C6_Preflight ==
    \A i \in Ids :
        LET r == req[i]
        IN  (Answered(r) /\ r.method = "OPTIONS") =>
                /\ r.status = 204
                /\ r.out.kind = "empty"
                /\ r.steps = <<>>

(***************************************************************************)
(* C7: a chat request is answered 200 exactly when it is a POST whose body *)
(* decodes to a message that is not blank, the API key is configured, and  *)
(* the upstream call succeeds (client.Do and the read return no error, the *)
(* status is 200) with a body of one or more candidates; the `response`    *)
(* field is then the first candidate's text, whatever the later ones are.  *)
(***************************************************************************)
UpstreamSucceeded(r) ==
    /\ UpstreamRead(r)
    /\ r.upStatus = 200
    /\ r.upBody.kind = "completion"
    /\ Len(r.upBody.choices) >= 1

ValidChat(r) ==
    /\ r.method = "POST"
    /\ Decoded(r)
    /\ ~IsBlank(r.msg)
    /\ env # ""

StepOrder ==
    <<"gate", "decode", "validate", "credential", "compose", "call", "read",
      "status", "parse", "choices", "audit", "respond">>

IsPrefix(s, t) == Len(s) <= Len(t) /\ s = SubSeq(t, 1, Len(s))

Calls(r) == Cardinality({k \in 1..Len(r.steps) : r.steps[k] = "call"})

PipelineOrder(r) ==
    /\ IsPrefix(r.steps, StepOrder)
    /\ r.calls = Calls(r)
    /\ r.calls <= 1
    /\ r.calls = 1 => ValidChat(r)
    /\ r.status # 0 <=> Answered(r)
    /\ r.out.kind = "error" => r.status \in {400, 405, 500}

\* an answered request takes no further step: only its log goroutine moves
Terminal(r, s) ==
    Answered(r) => s = [r EXCEPT !.logTask = s.logTask]

C8_PipelineOnce ==
    /\ [](\A i \in Ids : PipelineOrder(req[i]))
    /\ [][\A i \in Ids : Terminal(req[i], req'[i])]_vars

C8_Witness ==
    /\ Answered(req[1])
    /\ req[1].steps = SubSeq(StepOrder, 1, 6)
    /\ req[1].calls = 1
    /\ AnswersError(req[1], 500, "Failed to call GROQ API")

(***************************************************************************)
(* C9: a chat request whose upstream call came back 2xx with a body that   *)
(* does not parse, or parses with no candidate, is answered with the same  *)
(* status and the same message as one whose upstream call came back with a *)
(* status that is not 2xx.                                                 *)
(***************************************************************************)
Is2xx(status) == status >= 200 /\ status < 300

BadCompletion(r) ==
    /\ Answered(r)
    /\ UpstreamRead(r)
    /\ Is2xx(r.upStatus)
    /\ (r.upBody.kind = "garbage" \/ Unmarshal(r.upBody).choices = <<>>)

BadStatus(r) == Answered(r) /\ UpstreamRead(r) /\ ~Is2xx(r.upStatus)

C9_OneUpstreamError ==
    \A i, j \in Ids :
        (BadCompletion(req[i]) /\ BadStatus(req[j])) =>
            /\ req[i].status = req[j].status
            /\ req[i].out = req[j].out

(***************************************************************************)
(* C10: the audit log line is written by a goroutine the handler starts    *)
(* and never waits for: it is started only for a request that is answered  *)
(* 200, and whether the line is written before the response, after it, or  *)
(* not yet, the handler can answer and the answer is the first candidate.  *)
(***************************************************************************)
C10_DetachedLog ==
    \A i \in Ids :
        LET r == req[i]
        IN  /\ r.pc = "respond" => (RespondReady(r) /\ r.logTask \in {"spawned", "done"})
            /\ r.logTask # "none" =>
                  /\ r.pc \in {"respond", "done"}
                  /\ UpstreamSucceeded(r)
                  /\ Answered(r) =>
                        /\ r.status = 200
                        /\ r.out = [kind |-> "chat", text |-> r.upBody.choices[1]]
            /\ (Answered(r) /\ r.status = 200 /\ IsChat(r)) => r.logTask # "none"

\* one request answered before its line is written, another whose line is
\* written before its answer
C10_Witness ==
    /\ Answered(req[1]) /\ req[1].status = 200 /\ req[1].logTask = "spawned"
    /\ req[2].pc = "respond" /\ req[2].logTask = "done"
    /\ Len(log) = 1

====
